---- MODULE Spec2Model ----
(***************************************************************************)
(* Task lifecycle of TaskApp (src/unnamed/part_000): the `tasks` state,    *)
(* the handlers addTask / updateTask / toggleComplete / deleteTask /       *)
(* startEditing, the rendered list filteredTasks, the effects loadTasks /  *)
(* saveTasks / permission request, and the notification and AsyncStorage   *)
(* collaborators they call.                                                *)
(*                                                                         *)
(* A handler is a closure of the render that was committed when the user   *)
(* pressed the button: it reads `tasks`, `editingTask` and the form fields *)
(* of that render.  The part of an async handler that runs before its      *)
(* first `await` is one step; every resumption after an `await` is another *)
(* step, and other handlers run in between.  An operation suspended on an  *)
(* `await` is an element of `inflight` and carries what its closure holds. *)
(*                                                                         *)
(* The three effects of the mount (lines 101-153) start loadTasks, the     *)
(* first saveTasks and the permission request; saveTasks runs again after  *)
(* every render in which setTasks has installed a new array, so the step   *)
(* that calls setTasks also issues the setItem.  AsyncStorage and the      *)
(* notification service answer at any later moment, in any order.          *)
(*                                                                         *)
(* Optional values (reminderDate?, notificationId?, editingTask | null)    *)
(* are sets with at most one element: {} is undefined / null.              *)
(* Strings are sequences of one-character strings.                         *)
(***************************************************************************)
EXTENDS Integers, Sequences, FiniteSets, TLC

VARIABLES
    tasks,        \* useState<Task[]>                         (line 91)
    editingTask,  \* useState<Task | null>: {} or {snapshot}  (line 98)
    inflight,     \* async handlers suspended on an await
    scheduled,    \* notification ids scheduled and not cancelled
    nextNid,      \* how many notification ids the collaborator has handed out
    now,          \* the wall clock read by Date.now() and new Date()
    reqs,         \* notification requests issued by the latest step
    alert,        \* Alert.alert / unhandled rejection raised by the latest step
    storage,      \* AsyncStorage under STORAGE_KEY: {} or {string}   (line 85)
    pending,      \* the strings of the setItem calls that have not completed
    loading,      \* the getItem of loadTasks has not completed      (line 105)
    permission,   \* the answer to requestPermissionsAsync           (line 138)
    launched      \* what AsyncStorage held when the application was launched

\* What no handler of the task list assigns.
startup == <<storage, loading, permission, launched>>

vars == <<tasks, editingTask, inflight, scheduled, nextNid, now, reqs, alert,
          storage, pending, loading, permission, launched>>

----------------------------------------------------------------------------
(* Bounds of the model *)

MaxTasks == 2
MaxTime == 1
MaxNid == 2
MaxInFlight == 1
MaxShown == 3
MaxStamp == 1
MaxPending == 2

----------------------------------------------------------------------------
(* Values *)

Whitespace == {" ", "\t"}

\* The form contents the handlers are exercised with (task, priority,
\* category, reminderDate of lines 90-94; reminderDate is undefined or a
\* timestamp): two blank texts, and three that are not blank, with no
\* reminder, with a reminder that the clock can pass, and with a reminder
\* that stays in the future.
Drafts ==
    {[text |-> <<>>,              priority |-> "Low",  category |-> <<>>,
      reminderDate |-> {}],
     [text |-> <<" ", "\t">>,     priority |-> "High", category |-> <<"W">>,
      reminderDate |-> {MaxTime + 1}],
     [text |-> <<"a">>,           priority |-> "Low",  category |-> <<>>,
      reminderDate |-> {}],
     [text |-> <<" ", "b", " ">>, priority |-> "High", category |-> <<"W">>,
      reminderDate |-> {1}],
     [text |-> <<"a", " ">>,      priority |-> "Low",  category |-> <<"W">>,
      reminderDate |-> {MaxTime + 1}]}

Ids == 0..MaxTime

\* const PRIORITIES = ['Low', 'Medium', 'High']
PRIORITIES == {"High", "Medium", "Low"}

\* Timestamps of a reminderDate, on both sides of the epoch.
Stamps == (0 - MaxStamp)..MaxStamp

NoAlert == "none"

----------------------------------------------------------------------------
(* String.prototype.trim *)

RECURSIVE TrimStart(_)
TrimStart(s) ==
    IF s = <<>> THEN s
    ELSE IF Head(s) \in Whitespace THEN TrimStart(Tail(s)) ELSE s

RECURSIVE TrimEnd(_)
TrimEnd(s) ==
    IF s = <<>> THEN s
    ELSE IF s[Len(s)] \in Whitespace THEN TrimEnd(SubSeq(s, 1, Len(s) - 1)) ELSE s

Trim(s) == TrimEnd(TrimStart(s))

\* !task, without the trim
IsBlankUntrimmed(text) == text = <<>>

\* !task.trim()
IsBlank(text) == Trim(text) = <<>>

\* reminderDate && reminderDate > new Date()
IsFuture(reminderDate, clock) == \E d \in reminderDate : d > clock

----------------------------------------------------------------------------
(* Sequence helpers *)

RemoveAt(s, i) == SubSeq(s, 1, i - 1) \o SubSeq(s, i + 1, Len(s))

HasId(ts, id) == \E i \in 1..Len(ts) : ts[i].id = id

\* tasks.find(t => t.id === id): {} when undefined
FindTask(ts, id) ==
    IF HasId(ts, id)
    THEN {ts[CHOOSE i \in 1..Len(ts) :
                /\ ts[i].id = id
                /\ \A j \in 1..(i - 1) : ts[j].id # id]}
    ELSE {}

----------------------------------------------------------------------------
(* The values the handlers build *)

\* const newTask: Task = { id: Date.now(), text: task.trim(), ... }
NewTask(text, priority, category, reminderDate, clock) ==
    [id             |-> clock,
     text           |-> Trim(text),
     completed      |-> FALSE,
     priority       |-> priority,
     category       |-> Trim(category),
     reminderDate   |-> reminderDate,
     notificationId |-> {}]

\* newTask.notificationId = notificationId
WithNotification(t, nid) == [t EXCEPT !.notificationId = {nid}]

\* [...tasks, newTask]
AddedTasks(ts, newTask) == Append(ts, newTask)

\* tasks.map(t => t.id === editingTask.id ? { ...t, text: task.trim(), ... } : t)
UpdatedTasks(ts, id, text, priority, category, reminderDate, notificationId) ==
    [i \in 1..Len(ts) |->
        IF ts[i].id = id
        THEN [ts[i] EXCEPT !.text           = Trim(text),
                           !.priority       = priority,
                           !.category       = Trim(category),
                           !.reminderDate   = reminderDate,
                           !.notificationId = notificationId]
        ELSE ts[i]]

\* completed: true instead of completed: !t.completed
ToggledTasksSetsTrue(prev, id) ==
    [i \in 1..Len(prev) |->
        IF prev[i].id = id
        THEN [prev[i] EXCEPT !.completed = TRUE]
        ELSE prev[i]]

\* prev.map(t => t.id === id ? { ...t, completed: !t.completed } : t)
ToggledTasks(prev, id) ==
    [i \in 1..Len(prev) |->
        IF prev[i].id = id
        THEN [prev[i] EXCEPT !.completed = ~prev[i].completed]
        ELSE prev[i]]

\* prev.filter(t => t.id === id) instead of !==
RECURSIVE DeletedTasksKeepsMatch(_, _)
DeletedTasksKeepsMatch(prev, id) ==
    IF prev = <<>> THEN <<>>
    ELSE IF Head(prev).id = id
         THEN <<Head(prev)>> \o DeletedTasksKeepsMatch(Tail(prev), id)
         ELSE DeletedTasksKeepsMatch(Tail(prev), id)

\* prev.filter(t => t.id !== id)
RECURSIVE DeletedTasks(_, _)
DeletedTasks(prev, id) ==
    IF prev = <<>> THEN <<>>
    ELSE IF Head(prev).id # id
         THEN <<Head(prev)>> \o DeletedTasks(Tail(prev), id)
         ELSE DeletedTasks(Tail(prev), id)

\* Notifications.scheduleNotificationAsync(...): a schedule request
ScheduleRequest == [type |-> "schedule", nid |-> {}]

\* Notifications.cancelScheduledNotificationAsync(notificationId)
CancelRequest(notificationId) == [type |-> "cancel", nid |-> notificationId]

\* setEditingTask(task): of the snapshot, updateTask reads id and
\* notificationId only; the other fields go to the form.
EditingSnapshot(t) == [id |-> t.id, notificationId |-> t.notificationId]

\* What the closure of a suspended handler holds.
Suspended(kind, pc, ts, id, text, priority, category, reminderDate, oldNid) ==
    [kind |-> kind, pc |-> pc, tasks |-> ts, id |-> id, text |-> text,
     priority |-> priority, category |-> category,
     reminderDate |-> reminderDate, oldNid |-> oldNid]

----------------------------------------------------------------------------
(* The rendered list: filteredTasks (lines 271-286) *)

\* useState<'All' | 'Completed' | 'Pending'> and
\* useState<'None' | 'Priority' | 'Date'>
Filters == {"All", "Completed", "Pending"}
SortBys == {"None", "Priority", "Date"}

\* The callback of tasks.filter
Keeps(t, filter) ==
    IF filter = "Completed" THEN t.completed
    ELSE IF filter = "Pending" THEN ~t.completed
    ELSE TRUE

\* tasks.filter(...): a new array
RECURSIVE Filtered(_, _)
Filtered(ts, filter) ==
    IF ts = <<>> THEN <<>>
    ELSE IF Keeps(Head(ts), filter)
         THEN <<Head(ts)>> \o Filtered(Tail(ts), filter)
         ELSE Filtered(Tail(ts), filter)

\* const priorityOrder = { High: 3, Medium: 2, Low: 1 }
priorityOrder(priority) ==
    CASE priority = "High"   -> 3
      [] priority = "Medium" -> 2
      [] priority = "Low"    -> 1

\* a.reminderDate?.getTime() || 0
TimeOrZero(t) ==
    IF t.reminderDate = {} THEN 0
    ELSE LET time == CHOOSE d \in t.reminderDate : TRUE
         IN  IF time = 0 THEN 0 ELSE time

\* priorityOrder[a.priority] - priorityOrder[b.priority]
CompareAscending(a, b, sortBy) ==
    IF sortBy = "Priority"
    THEN priorityOrder(a.priority) - priorityOrder(b.priority)
    ELSE IF sortBy = "Date" THEN TimeOrZero(a) - TimeOrZero(b)
    ELSE 0

\* The callback of .sort
Compare(a, b, sortBy) ==
    IF sortBy = "Priority"
    THEN priorityOrder(b.priority) - priorityOrder(a.priority)
    ELSE IF sortBy = "Date" THEN TimeOrZero(a) - TimeOrZero(b)
    ELSE 0

\* Array.prototype.sort is stable: an element moves in front of those that
\* the callback orders strictly after it, and of no other.
RECURSIVE Inserted(_, _, _)
Inserted(sorted, x, sortBy) ==
    IF sorted = <<>> THEN <<x>>
    ELSE IF Compare(sorted[Len(sorted)], x, sortBy) > 0
         THEN Append(Inserted(SubSeq(sorted, 1, Len(sorted) - 1), x, sortBy),
                     sorted[Len(sorted)])
         ELSE Append(sorted, x)

RECURSIVE Sorted(_, _)
Sorted(arr, sortBy) ==
    IF arr = <<>> THEN <<>>
    ELSE Inserted(Sorted(SubSeq(arr, 1, Len(arr) - 1), sortBy),
                  arr[Len(arr)], sortBy)

\* tasks.filter(...).sort(...)
filteredTasks(ts, filter, sortBy) == Sorted(Filtered(ts, filter), sortBy)

\* tasks.sort(...): the sort without the copy that filter makes
TasksSortedInPlace(ts, filter, sortBy) == Sorted(ts, sortBy)

\* What the array held by `tasks` contains after filteredTasks was computed:
\* .sort reorders the array that .filter returned, not `tasks`.
TasksAfterRender(ts, filter, sortBy) == ts

----------------------------------------------------------------------------
(* Persistence: saveTasks (lines 122-133) and loadTasks (lines 101-120) *)

\* The JSON object of a task: a Date becomes its ISO string, a property
\* whose value is undefined is left out.
ToJSON(t) ==
    IF t.reminderDate = {} /\ t.notificationId = {}
    THEN [id |-> t.id, text |-> t.text, completed |-> t.completed,
          priority |-> t.priority, category |-> t.category]
    ELSE IF t.notificationId = {}
    THEN [id |-> t.id, text |-> t.text, completed |-> t.completed,
          priority |-> t.priority, category |-> t.category,
          reminderDate |-> [iso |-> CHOOSE d \in t.reminderDate : TRUE]]
    ELSE IF t.reminderDate = {}
    THEN [id |-> t.id, text |-> t.text, completed |-> t.completed,
          priority |-> t.priority, category |-> t.category,
          notificationId |-> CHOOSE n \in t.notificationId : TRUE]
    ELSE [id |-> t.id, text |-> t.text, completed |-> t.completed,
          priority |-> t.priority, category |-> t.category,
          reminderDate |-> [iso |-> CHOOSE d \in t.reminderDate : TRUE],
          notificationId |-> CHOOSE n \in t.notificationId : TRUE]

\* JSON.stringify(tasks)
JSONstringify(ts) ==
    [valid |-> TRUE, items |-> [i \in 1..Len(ts) |-> ToJSON(ts[i])]]

\* A stored string that JSON.parse rejects, or that is not an array
Unparseable == [valid |-> FALSE, items |-> <<>>]

\* reminderDate: new Date(task.reminderDate), without the test: the date
\* of a missing property is a date all the same
WithDateUnguarded(j) ==
    [id             |-> j.id,
     text           |-> j.text,
     completed      |-> j.completed,
     priority       |-> j.priority,
     category       |-> j.category,
     reminderDate   |-> IF "reminderDate" \in DOMAIN j
                        THEN {j.reminderDate.iso} ELSE {0},
     notificationId |-> IF "notificationId" \in DOMAIN j
                        THEN {j.notificationId} ELSE {}]

\* { ...task, reminderDate: task.reminderDate
\*                            ? new Date(task.reminderDate) : undefined }
WithDate(j) ==
    [id             |-> j.id,
     text           |-> j.text,
     completed      |-> j.completed,
     priority       |-> j.priority,
     category       |-> j.category,
     reminderDate   |-> IF "reminderDate" \in DOMAIN j
                        THEN {j.reminderDate.iso} ELSE {},
     notificationId |-> IF "notificationId" \in DOMAIN j
                        THEN {j.notificationId} ELSE {}]

\* JSON.parse(savedTasks).map(...)
tasksWithDates(saved) == [i \in 1..Len(saved.items) |-> WithDate(saved.items[i])]

\* setItem(STORAGE_KEY, JSON.stringify(tasks)) called by the handler itself,
\* with the `tasks` of its closure
SaveTasksStale(ts) == pending' = pending \cup {JSONstringify(tasks)}

\* saveTasks of the render that follows setTasks(ts): the setItem is issued.
SaveTasks(ts) == pending' = pending \cup {JSONstringify(ts)}

----------------------------------------------------------------------------
\* The application on its first launch, once the effects of the mount have
\* settled: nothing was stored, getItem has answered null, the setItem of the
\* initial [] has completed and the permission was granted.
Init ==
    /\ tasks = <<>>
    /\ editingTask = {}
    /\ inflight = <<>>
    /\ scheduled = {}
    /\ nextNid = 0
    /\ now = 0
    /\ reqs = <<>>
    /\ alert = NoAlert
    /\ launched = {}
    /\ storage = {JSONstringify(<<>>)}
    /\ pending = {}
    /\ loading = FALSE
    /\ permission = "granted"

\* Time passes between two events.
Tick ==
    /\ now < MaxTime
    /\ now' = now + 1
    /\ reqs' = <<>>
    /\ alert' = NoAlert
    /\ UNCHANGED <<tasks, editingTask, inflight, scheduled, nextNid>>
    /\ UNCHANGED <<pending, startup>>

\* addTask, up to its first await (lines 155-172) or to its end (155-192).
\* The button runs addTask only while editingTask is null (lines 317, 321).
AddTask(text, priority, category, reminderDate) ==
    /\ editingTask = {}
    /\ IF IsBlank(text)
       THEN /\ alert' = "Task text cannot be empty"
            /\ reqs' = <<>>
            /\ UNCHANGED <<tasks, pending, inflight>>
       ELSE IF IsFuture(reminderDate, now)
       THEN /\ Len(inflight) < MaxInFlight
            /\ Len(tasks) < MaxTasks
            /\ reqs' = <<ScheduleRequest>>
            /\ inflight' = Append(inflight,
                   Suspended("add", "schedule", tasks, now, text, priority,
                             category, reminderDate, {}))
            /\ alert' = NoAlert
            /\ UNCHANGED <<tasks, pending>>
       ELSE /\ Len(tasks) < MaxTasks
            /\ tasks' = AddedTasks(tasks,
                   NewTask(text, priority, category, reminderDate, now))
            /\ SaveTasks(tasks')
            /\ reqs' = <<>>
            /\ alert' = NoAlert
            /\ UNCHANGED inflight
    /\ UNCHANGED <<editingTask, scheduled, nextNid, now>>
    /\ UNCHANGED startup

\* addTask resumed after `await scheduleNotificationAsync` (lines 172-191).
AddTaskScheduled(i, ok) ==
    /\ i \in 1..Len(inflight)
    /\ inflight[i].kind = "add"
    /\ inflight[i].pc = "schedule"
    /\ LET op == inflight[i]
           newTask == NewTask(op.text, op.priority, op.category,
                              op.reminderDate, op.id)
       IN  IF ok
           THEN /\ nextNid < MaxNid
                /\ nextNid' = nextNid + 1
                /\ scheduled' = scheduled \cup {nextNid + 1}
                /\ tasks' = AddedTasks(op.tasks,
                                       WithNotification(newTask, nextNid + 1))
                /\ SaveTasks(tasks')
                /\ alert' = NoAlert
           ELSE /\ alert' = "Failed to add task"
                /\ UNCHANGED <<tasks, pending, scheduled, nextNid>>
    /\ inflight' = RemoveAt(inflight, i)
    /\ reqs' = <<>>
    /\ UNCHANGED <<editingTask, now>>
    /\ UNCHANGED startup

\* updateTask, up to its first await or to its end (lines 194-238).
\* The button runs updateTask only while editingTask is set (lines 317, 321);
\* the cancel is for the notificationId of the editingTask snapshot.
UpdateTask(text, priority, category, reminderDate) ==
    /\ editingTask # {}
    /\ LET editing == CHOOSE t \in editingTask : TRUE
       IN  IF IsBlank(text)
           THEN /\ reqs' = <<>>
                /\ UNCHANGED <<tasks, pending, editingTask, inflight>>
           ELSE IF editing.notificationId # {}
           THEN /\ Len(inflight) < MaxInFlight
                /\ reqs' = <<CancelRequest(editing.notificationId)>>
                /\ inflight' = Append(inflight,
                       Suspended("update", "cancel", tasks, editing.id, text,
                                 priority, category, reminderDate,
                                 editing.notificationId))
                /\ UNCHANGED <<tasks, pending, editingTask>>
           ELSE IF IsFuture(reminderDate, now)
           THEN /\ Len(inflight) < MaxInFlight
                /\ reqs' = <<ScheduleRequest>>
                /\ inflight' = Append(inflight,
                       Suspended("update", "schedule", tasks, editing.id, text,
                                 priority, category, reminderDate, {}))
                /\ UNCHANGED <<tasks, pending, editingTask>>
           ELSE /\ tasks' = UpdatedTasks(tasks, editing.id, text, priority,
                                         category, reminderDate, {})
                /\ SaveTasks(tasks')
                /\ editingTask' = {}
                /\ reqs' = <<>>
                /\ UNCHANGED inflight
    /\ alert' = NoAlert
    /\ UNCHANGED <<scheduled, nextNid, now>>
    /\ UNCHANGED startup

\* updateTask resumed after `await cancelScheduledNotificationAsync`
\* (lines 200-237): reminderDate is compared with the clock of this moment.
UpdateTaskCancelled(i, ok) ==
    /\ i \in 1..Len(inflight)
    /\ inflight[i].kind = "update"
    /\ inflight[i].pc = "cancel"
    /\ LET op == inflight[i]
       IN  IF ~ok
           THEN /\ alert' = "Failed to update task"
                /\ inflight' = RemoveAt(inflight, i)
                /\ reqs' = <<>>
                /\ UNCHANGED <<tasks, pending, editingTask, scheduled>>
           ELSE /\ scheduled' = scheduled \ op.oldNid
                /\ alert' = NoAlert
                /\ IF IsFuture(op.reminderDate, now)
                   THEN /\ reqs' = <<ScheduleRequest>>
                        /\ inflight' = [inflight EXCEPT ![i].pc = "schedule"]
                        /\ UNCHANGED <<tasks, pending, editingTask>>
                   ELSE /\ tasks' = UpdatedTasks(op.tasks, op.id, op.text,
                                        op.priority, op.category,
                                        op.reminderDate, {})
                        /\ SaveTasks(tasks')
                        /\ editingTask' = {}
                        /\ inflight' = RemoveAt(inflight, i)
                        /\ reqs' = <<>>
    /\ UNCHANGED <<nextNid, now>>
    /\ UNCHANGED startup

\* updateTask resumed after `await scheduleNotificationAsync` (lines 205-237).
UpdateTaskScheduled(i, ok) ==
    /\ i \in 1..Len(inflight)
    /\ inflight[i].kind = "update"
    /\ inflight[i].pc = "schedule"
    /\ LET op == inflight[i]
       IN  IF ok
           THEN /\ nextNid < MaxNid
                /\ nextNid' = nextNid + 1
                /\ scheduled' = scheduled \cup {nextNid + 1}
                /\ tasks' = UpdatedTasks(op.tasks, op.id, op.text, op.priority,
                                op.category, op.reminderDate, {nextNid + 1})
                /\ SaveTasks(tasks')
                /\ editingTask' = {}
                /\ alert' = NoAlert
           ELSE /\ alert' = "Failed to update task"
                /\ UNCHANGED <<tasks, pending, editingTask, scheduled, nextNid>>
    /\ inflight' = RemoveAt(inflight, i)
    /\ reqs' = <<>>
    /\ UNCHANGED now
    /\ UNCHANGED startup

\* toggleComplete (lines 247-253)
ToggleComplete(id) ==
    /\ tasks' = ToggledTasks(tasks, id)
    /\ SaveTasks(tasks')
    /\ reqs' = <<>>
    /\ alert' = NoAlert
    /\ UNCHANGED <<editingTask, inflight, scheduled, nextNid, now>>
    /\ UNCHANGED startup

\* deleteTask, up to its await or to its end (lines 255-261).
DeleteTask(id) ==
    /\ LET taskToDelete == FindTask(tasks, id)
       IN  IF \E t \in taskToDelete : t.notificationId # {}
           THEN /\ Len(inflight) < MaxInFlight
                /\ reqs' = <<CancelRequest(
                       (CHOOSE t \in taskToDelete : TRUE).notificationId)>>
                /\ inflight' = Append(inflight,
                       Suspended("delete", "cancel", <<>>, id, <<>>, "Low",
                                 <<>>, {},
                                 (CHOOSE t \in taskToDelete : TRUE).notificationId))
                /\ UNCHANGED <<tasks, pending>>
           ELSE /\ tasks' = DeletedTasks(tasks, id)
                /\ SaveTasks(tasks')
                /\ reqs' = <<>>
                /\ UNCHANGED inflight
    /\ alert' = NoAlert
    /\ UNCHANGED <<editingTask, scheduled, nextNid, now>>
    /\ UNCHANGED startup

\* deleteTask resumed after `await cancelScheduledNotificationAsync`
\* (lines 258-260).  There is no try/catch: a rejected cancel ends the handler.
DeleteTaskCancelled(i, ok) ==
    /\ i \in 1..Len(inflight)
    /\ inflight[i].kind = "delete"
    /\ LET op == inflight[i]
       IN  IF ok
           THEN /\ scheduled' = scheduled \ op.oldNid
                /\ tasks' = DeletedTasks(tasks, op.id)
                /\ SaveTasks(tasks')
                /\ alert' = NoAlert
           ELSE /\ alert' = "unhandled rejection"
                /\ UNCHANGED <<tasks, pending, scheduled>>
    /\ inflight' = RemoveAt(inflight, i)
    /\ reqs' = <<>>
    /\ UNCHANGED <<editingTask, nextNid, now>>
    /\ UNCHANGED startup

\* startEditing (lines 263-269), pressed on an item of the rendered list.
StartEditing(i) ==
    /\ i \in 1..Len(tasks)
    /\ editingTask' = {EditingSnapshot(tasks[i])}
    /\ reqs' = <<>>
    /\ alert' = NoAlert
    /\ UNCHANGED <<tasks, pending, inflight, scheduled, nextNid, now>>
    /\ UNCHANGED startup

\* The cancel-edit button: setEditingTask(null); resetForm().
CancelEditing ==
    /\ editingTask # {}
    /\ editingTask' = {}
    /\ reqs' = <<>>
    /\ alert' = NoAlert
    /\ UNCHANGED <<tasks, pending, inflight, scheduled, nextNid, now>>
    /\ UNCHANGED startup

\* loadTasks resumed after `await AsyncStorage.getItem` (lines 105-116):
\* getItem answers with what is stored at that moment, or rejects.  A string
\* that is null or that JSON.parse rejects leaves `tasks` alone; otherwise
\* setTasks installs the parsed array, whatever `tasks` holds by then.
LoadCompleted(ok) ==
    /\ loading
    /\ loading' = FALSE
    /\ IF ok /\ \E savedTasks \in storage : savedTasks.valid
       THEN /\ tasks' = tasksWithDates(CHOOSE savedTasks \in storage : TRUE)
            /\ SaveTasks(tasks')
       ELSE UNCHANGED <<tasks, pending>>
    /\ reqs' = <<>>
    /\ alert' = NoAlert
    /\ UNCHANGED <<editingTask, inflight, scheduled, nextNid, now>>
    /\ UNCHANGED <<storage, permission, launched>>

\* A setItem of saveTasks completes (lines 124-129): the string is stored.
\* (A setItem that rejects is logged at line 128 and stores nothing; the
\* behaviours here are those in which every setItem resolves.)
WriteCompleted(string) ==
    /\ string \in pending
    /\ pending' = pending \ {string}
    /\ storage' = {string}
    /\ reqs' = <<>>
    /\ alert' = NoAlert
    /\ UNCHANGED <<tasks, editingTask, inflight, scheduled, nextNid, now>>
    /\ UNCHANGED <<loading, permission, launched>>

\* requestPermissionsAsync answers (lines 138-141): a status other than
\* 'granted' raises the alert, and nothing else keeps the answer.
PermissionAnswered(status) ==
    /\ permission = "asking"
    /\ permission' = status
    /\ alert' = IF status # "granted" THEN "Permission required" ELSE NoAlert
    /\ reqs' = <<>>
    /\ UNCHANGED <<tasks, editingTask, inflight, scheduled, nextNid, now>>
    /\ UNCHANGED <<storage, pending, loading, launched>>

\* A render: filteredTasks is computed for the list (lines 271-286).
Render(filter, sortBy) ==
    /\ tasks' = TasksAfterRender(tasks, filter, sortBy)
    /\ UNCHANGED <<editingTask, inflight, scheduled, nextNid, now, reqs, alert>>
    /\ UNCHANGED <<pending, startup>>

\* AsyncStorage has completed every setItem issued so far.
Settled == pending = {}

\* Every step but the press of the add button, in the task list in use
\* after the launch.  AsyncStorage completes a setItem before the next event
\* is handled: what it holds is read at the launch only, so the handlers do
\* not depend on the moment it answers.
OtherSteps ==
    \/ Settled /\ Tick
    \/ Settled /\ \E i \in 1..MaxInFlight, ok \in BOOLEAN :
                     AddTaskScheduled(i, ok)
    \/ Settled /\ \E d \in Drafts :
                     UpdateTask(d.text, d.priority, d.category, d.reminderDate)
    \/ Settled /\ \E i \in 1..MaxInFlight, ok \in BOOLEAN :
                     UpdateTaskCancelled(i, ok)
    \/ Settled /\ \E i \in 1..MaxInFlight, ok \in BOOLEAN :
                     UpdateTaskScheduled(i, ok)
    \/ Settled /\ \E id \in Ids : ToggleComplete(id)
    \/ Settled /\ \E id \in Ids : DeleteTask(id)
    \/ Settled /\ \E i \in 1..MaxInFlight, ok \in BOOLEAN :
                     DeleteTaskCancelled(i, ok)
    \/ Settled /\ \E i \in 1..MaxTasks : StartEditing(i)
    \/ Settled /\ CancelEditing
    \/ \E string \in pending : WriteCompleted(string)

Next ==
    \/ Settled /\ \E d \in Drafts :
                     AddTask(d.text, d.priority, d.category, d.reminderDate)
    \/ OtherSteps

Spec == Init /\ [][Next]_vars

\* The behaviours of Spec in which Date.now() gives every add a value that no
\* task, no operation under way and no editing snapshot carries as an id.
ClockUnused ==
    /\ ~HasId(tasks, now)
    /\ \A k \in 1..Len(inflight) :
          inflight[k].id # now /\ ~HasId(inflight[k].tasks, now)
    /\ \A t \in editingTask : t.id # now

AddTaskFresh(text, priority, category, reminderDate) ==
    /\ ClockUnused
    /\ AddTask(text, priority, category, reminderDate)

NextDistinct ==
    \/ Settled /\ \E d \in Drafts :
                     AddTaskFresh(d.text, d.priority, d.category, d.reminderDate)
    \/ OtherSteps

SpecDistinct == Init /\ [][NextDistinct]_vars

\* The list is rendered for a collection of up to MaxShown tasks, of every
\* completion state, priority and reminderDate, in every order, that has
\* been saved; a task whose reminderDate is ahead of the clock has its
\* notification scheduled.
ShownFields ==
    [completed : BOOLEAN, priority : PRIORITIES,
     reminderDate : {{}} \cup {{d} : d \in Stamps}]

ShownTasks(fields) ==
    [i \in 1..Len(fields) |->
        [id             |-> i,
         text           |-> <<"a">>,
         completed      |-> fields[i].completed,
         priority       |-> fields[i].priority,
         category       |-> <<>>,
         reminderDate   |-> fields[i].reminderDate,
         notificationId |-> IF IsFuture(fields[i].reminderDate, 0)
                            THEN {i} ELSE {}]]

InitShown ==
    /\ \E n \in 0..MaxShown : \E fields \in [1..n -> ShownFields] :
          tasks = ShownTasks(fields)
    /\ editingTask = {}
    /\ inflight = <<>>
    /\ scheduled = UNION {tasks[i].notificationId : i \in 1..Len(tasks)}
    /\ nextNid = MaxShown
    /\ now = 0
    /\ reqs = <<>>
    /\ alert = NoAlert
    /\ launched = {}
    /\ storage = {JSONstringify(tasks)}
    /\ pending = {}
    /\ loading = FALSE
    /\ permission = "granted"

NextShown ==
    \/ \E filter \in Filters, sortBy \in SortBys : Render(filter, sortBy)
    \/ Settled /\ \E id \in 1..MaxShown : ToggleComplete(id)
    \/ \E string \in pending : WriteCompleted(string)

SpecShown == InitShown /\ [][NextShown]_vars

\* The launch (lines 101-153).  AsyncStorage holds nothing, a string that
\* does not parse, or what an earlier session saved: tasks whose ids are
\* clock values of that session.
Earlier(k) ==
    [id             |-> k - (MaxTasks + 1),
     text           |-> <<"a">>,
     completed      |-> (k = 1),
     priority       |-> "Low",
     category       |-> <<>>,
     reminderDate   |-> IF k = 1 THEN {} ELSE {k - (MaxTasks + 1)},
     notificationId |-> {}]

LaunchStorage ==
    {{}, {Unparseable}, {JSONstringify([k \in 1..MaxTasks |-> Earlier(k)])}}

StoreIds == (0 - MaxTasks)..0

\* The form contents used at the launch: a text without a reminder and a
\* text with a reminder that stays in the future.
StoreDrafts ==
    {d \in Drafts : ~IsBlank(d.text) /\ d.reminderDate \in {{}, {MaxTime + 1}}}

\* The state after the first render and its three effects.
InitMount ==
    /\ tasks = <<>>
    /\ editingTask = {}
    /\ inflight = <<>>
    /\ scheduled = {}
    /\ nextNid = 0
    /\ now = 0
    /\ reqs = <<>>
    /\ alert = NoAlert
    /\ launched \in LaunchStorage
    /\ storage = launched
    /\ pending = {JSONstringify(tasks)}
    /\ loading = TRUE
    /\ permission = "asking"

\* At most MaxPending setItem calls are under way.
CanWrite == Cardinality(pending) < MaxPending

NextMount ==
    \/ /\ CanWrite
       /\ \E ok \in BOOLEAN : LoadCompleted(ok)
    \/ \E string \in pending : WriteCompleted(string)
    \/ \E status \in {"granted", "denied"} : PermissionAnswered(status)
    \/ /\ CanWrite
       /\ \E d \in StoreDrafts :
            AddTask(d.text, d.priority, d.category, d.reminderDate)
    \/ /\ CanWrite
       /\ \E i \in 1..MaxInFlight, ok \in BOOLEAN : AddTaskScheduled(i, ok)
    \/ /\ CanWrite
       /\ \E id \in StoreIds : ToggleComplete(id)

SpecMount == InitMount /\ [][NextMount]_vars

\* The task list in use after the first launch, with tasks that have no
\* reminder: up to MaxPending writes are under way at a time and AsyncStorage
\* completes them in any order.
NextWrites ==
    \/ CanWrite /\ \E d \in Drafts :
                      /\ d.reminderDate = {}
                      /\ AddTaskFresh(d.text, d.priority, d.category,
                                      d.reminderDate)
    \/ CanWrite /\ \E id \in Ids : ToggleComplete(id)
    \/ CanWrite /\ \E id \in Ids : DeleteTask(id)
    \/ Tick
    \/ \E string \in pending : WriteCompleted(string)

SpecWrites == Init /\ [][NextWrites]_vars

----------------------------------------------------------------------------
(* Vocabulary of the claims, stated without the handlers' helpers *)

\* text is empty or consists of whitespace only
WhitespaceOnly(text) == \A k \in 1..Len(text) : text[k] \in Whitespace

\* text without its leading and trailing whitespace
Stripped(text) ==
    LET solid == {k \in 1..Len(text) : text[k] \notin Whitespace}
    IN  IF solid = {} THEN <<>>
        ELSE SubSeq(text,
                    CHOOSE k \in solid : \A m \in solid : k <= m,
                    CHOOSE k \in solid : \A m \in solid : k >= m)

\* No add, update or delete is suspended on a notification call.
Quiescent == inflight = <<>>

\* The step appends exactly one task, built from the given form contents, and
\* leaves every earlier task as and where it was.
AppendsOne(text, priority, category) ==
    /\ Len(tasks') = Len(tasks) + 1
    /\ \A j \in 1..Len(tasks) : tasks'[j] = tasks[j]
    /\ tasks'[Len(tasks')].text = Stripped(text)
    /\ tasks'[Len(tasks')].category = Stripped(category)
    /\ tasks'[Len(tasks')].priority = priority
    /\ tasks'[Len(tasks')].completed = FALSE

----------------------------------------------------------------------------
(* C1: addTask with a text that is empty or whitespace-only leaves the     *)
(* collection unchanged, issues no notification request, starts no         *)
(* suspended operation and reports the validation error.                   *)
C1_BlankAddRejected ==
    [][\A d \in Drafts :
          (WhitespaceOnly(d.text)
             /\ AddTask(d.text, d.priority, d.category, d.reminderDate))
          => /\ tasks' = tasks
             /\ reqs' = <<>>
             /\ inflight' = inflight
             /\ scheduled' = scheduled
             /\ alert' = "Task text cannot be empty"]_vars

\* A blank add was rejected while the collection held tasks.
C1_Witness ==
    /\ alert = "Task text cannot be empty"
    /\ tasks # <<>>

(* C2: every add with a non-blank text, once it completes (synchronously,  *)
(* or when its schedule call has settled), has appended exactly one task   *)
(* with the trimmed text, trimmed category, given priority and             *)
(* completed = false, and has left the earlier tasks as and where they     *)
(* were.                                                                   *)
C2_AddAppendsOneTask ==
    [][/\ \A d \in Drafts :
            (/\ ~WhitespaceOnly(d.text)
             /\ AddTask(d.text, d.priority, d.category, d.reminderDate)
             /\ inflight' = inflight)
            => AppendsOne(d.text, d.priority, d.category)
       /\ \A i \in 1..Len(inflight), ok \in BOOLEAN :
            AddTaskScheduled(i, ok)
            => AppendsOne(inflight[i].text, inflight[i].priority,
                          inflight[i].category)]_vars

(* C3: when the schedule call of an add fails, the task is still appended, *)
(* without a notificationId, and the failure is reported.                  *)
C3_AddSurvivesScheduleFailure ==
    [][\A i \in 1..Len(inflight) :
          AddTaskScheduled(i, FALSE)
          => /\ AppendsOne(inflight[i].text, inflight[i].priority,
                           inflight[i].category)
             /\ tasks'[Len(tasks')].notificationId = {}
             /\ alert' # NoAlert]_vars

(* C4: a failed cancel call never blocks the mutation it accompanies: when *)
(* the cancel of an update of a task in the collection fails, the update   *)
(* goes on (it replaces the task's fields, or is still under way to do     *)
(* so); when the cancel of a delete fails, the task is removed.            *)
C4_CancelFailureDoesNotBlock ==
    [][/\ \A i \in 1..Len(inflight) :
            (UpdateTaskCancelled(i, FALSE) /\ HasId(tasks, inflight[i].id))
            => \/ \E k \in 1..Len(inflight') :
                     /\ inflight'[k].kind = "update"
                     /\ inflight'[k].id = inflight[i].id
               \/ \E j \in 1..Len(tasks') :
                     /\ tasks'[j].id = inflight[i].id
                     /\ tasks'[j].text = Stripped(inflight[i].text)
                     /\ tasks'[j].priority = inflight[i].priority
                     /\ tasks'[j].category = Stripped(inflight[i].category)
                     /\ tasks'[j].reminderDate = inflight[i].reminderDate
       /\ \A i \in 1..Len(inflight) :
            DeleteTaskCancelled(i, FALSE)
            => ~HasId(tasks', inflight[i].id)]_vars

(* C5: whenever no add, update or delete is in flight, every task that has *)
(* a notificationId has the id of a notification that is scheduled and not *)
(* cancelled.                                                              *)
C5_NotificationIdIsScheduled ==
    Quiescent => \A j \in 1..Len(tasks) : tasks[j].notificationId \subseteq scheduled

(* C6: whenever no add, update or delete is in flight, every notification  *)
(* that is scheduled and not cancelled is the notificationId of exactly    *)
(* one task of the collection.                                             *)
C6_NoOrphanReminder ==
    Quiescent =>
        \A n \in scheduled :
            Cardinality({j \in 1..Len(tasks) : tasks[j].notificationId = {n}}) = 1

(* C7: an update whose target is not in the collection, or whose trimmed   *)
(* text is empty, changes no task and issues neither a cancel nor a        *)
(* schedule request.                                                       *)
C7_UpdateNoOpWhenUnqualified ==
    [][\A d \in Drafts :
          (/\ UpdateTask(d.text, d.priority, d.category, d.reminderDate)
           /\ \/ WhitespaceOnly(d.text)
              \/ \A t \in editingTask : ~HasId(tasks, t.id))
          => /\ tasks' = tasks
             /\ reqs' = <<>>
             /\ inflight' = inflight]_vars

\* The step of a successful update in which the task with this id gets its
\* new fields: it keeps its place, its id and its completed flag, no other
\* task changes, and its notificationId becomes the given one.
ReplacesInPlace(id, notificationId) ==
    /\ Len(tasks') = Len(tasks)
    /\ \A j \in 1..Len(tasks) :
          IF tasks[j].id = id
          THEN /\ tasks'[j].id = id
               /\ tasks'[j].completed = tasks[j].completed
               /\ tasks'[j].notificationId = notificationId
          ELSE tasks'[j] = tasks[j]

(* C8: for every successful update of a task of the collection: if the     *)
(* task has a notificationId when update is called, the call issues a      *)
(* cancel request for that id and no schedule request yet; when the update *)
(* completes, the task's notificationId is the id a new schedule request   *)
(* returned if the new reminderDate is in the future, and absent           *)
(* otherwise, and the task's id, completed flag and position are           *)
(* unchanged.                                                              *)
C8_UpdateReplacesInPlace ==
    [][/\ \A d \in Drafts :
            (/\ UpdateTask(d.text, d.priority, d.category, d.reminderDate)
             /\ ~WhitespaceOnly(d.text))
            => \A t \in editingTask :
                 /\ \A j \in 1..Len(tasks) :
                       (tasks[j].id = t.id /\ tasks[j].notificationId # {})
                       => reqs' = <<CancelRequest(tasks[j].notificationId)>>
                 /\ (HasId(tasks, t.id) /\ tasks' # tasks)
                       => ReplacesInPlace(t.id, {})
       /\ \A i \in 1..Len(inflight) :
            (UpdateTaskCancelled(i, TRUE) /\ HasId(tasks, inflight[i].id))
            => \/ /\ IsFuture(inflight[i].reminderDate, now)
                  /\ reqs' = <<ScheduleRequest>>
                  /\ tasks' = tasks
               \/ /\ ~IsFuture(inflight[i].reminderDate, now)
                  /\ reqs' = <<>>
                  /\ ReplacesInPlace(inflight[i].id, {})
       /\ \A i \in 1..Len(inflight) :
            (UpdateTaskScheduled(i, TRUE) /\ HasId(tasks, inflight[i].id))
            => /\ ReplacesInPlace(inflight[i].id, {nextNid'})
               /\ nextNid' \in scheduled' \ scheduled]_vars

\* The positions of the tasks that do not have this id.
Others(id) == {j \in 1..Len(tasks) : tasks[j].id # id}

\* The step removes every task with this id and keeps the other tasks,
\* unchanged and in their order.
RemovesTask(id) ==
    /\ Len(tasks') = Cardinality(Others(id))
    /\ \A j \in Others(id) :
          tasks'[Cardinality({k \in Others(id) : k <= j})] = tasks[j]
    /\ \A j \in 1..Len(tasks') : tasks'[j].id # id

\* The positions of the task that delete(id) is applied to: the first task
\* of the collection with this id.
Designated(id) ==
    {j \in 1..Len(tasks) :
        tasks[j].id = id /\ \A k \in 1..(j - 1) : tasks[k].id # id}

Flipped(ts, id) ==
    [j \in 1..Len(ts) |->
        [id             |-> ts[j].id,
         text           |-> ts[j].text,
         completed      |-> IF ts[j].id = id THEN ~ts[j].completed
                            ELSE ts[j].completed,
         priority       |-> ts[j].priority,
         category       |-> ts[j].category,
         reminderDate   |-> ts[j].reminderDate,
         notificationId |-> ts[j].notificationId]]

(* C10: toggleComplete(id) flips the completed flag of the task with that  *)
(* id and changes nothing else; applied twice it gives back the collection *)
(* it started from; it issues no notification request; on an id that no    *)
(* task has it changes nothing.                                            *)
C10_ToggleFlipsOnlyCompleted ==
    [][\A id \in Ids :
          /\ ToggledTasks(ToggledTasks(tasks, id), id) = tasks
          /\ ToggleComplete(id)
             => /\ tasks' = Flipped(tasks, id)
                /\ ~HasId(tasks, id) => tasks' = tasks
                /\ reqs' = <<>>
                /\ scheduled' = scheduled
                /\ inflight' = inflight]_vars

\* A task of a collection of two tasks has been toggled to completed.
C10_Witness ==
    /\ Len(tasks) = 2
    /\ \E j \in 1..Len(tasks) : tasks[j].completed
    /\ \E j \in 1..Len(tasks) : ~tasks[j].completed

----------------------------------------------------------------------------
(* Vocabulary of the claims about the rendered list *)

\* The task passes the completion filter.
Matches(t, filter) ==
    /\ filter = "Completed" => t.completed
    /\ filter = "Pending" => ~t.completed

\* How often x occurs in the sequence s
Occurrences(s, x) == Cardinality({k \in 1..Len(s) : s[k] = x})

\* r holds the tasks of ts that pass the filter, each as often as ts does.
PermutationOfMatching(r, ts, filter) ==
    /\ \A k \in 1..Len(r) : Matches(r[k], filter)
    /\ \A i \in 1..Len(ts) :
          Matches(ts[i], filter) => Occurrences(r, ts[i]) = Occurrences(ts, ts[i])
    /\ \A k \in 1..Len(r) : Occurrences(ts, r[k]) = Occurrences(r, r[k])

\* High = 3, Medium = 2, Low = 1
Weight(t) ==
    IF t.priority = "High" THEN 3 ELSE IF t.priority = "Medium" THEN 2 ELSE 1

\* Where the task stands in the stored collection
PlaceOf(ts, t) == CHOOSE i \in 1..Len(ts) : ts[i].id = t.id

(* C11: for every collection and every filter, the list sorted by Priority *)
(* is a permutation of the tasks that pass the filter, non-increasing in   *)
(* priority weight, and tasks of equal priority keep their stored order.   *)
C11_PriorityOrder ==
    \A filter \in Filters :
      LET r == filteredTasks(tasks, filter, "Priority")
      IN  /\ PermutationOfMatching(r, tasks, filter)
          /\ \A k \in 1..Len(r) : \A m \in (k + 1)..Len(r) :
                /\ Weight(r[k]) >= Weight(r[m])
                /\ Weight(r[k]) = Weight(r[m])
                     => PlaceOf(tasks, r[k]) < PlaceOf(tasks, r[m])

\* A collection of three tasks that the sort reorders: a Low task stored
\* first, then two High tasks.
C11_Witness ==
    /\ Len(tasks) = 3
    /\ tasks[1].priority = "Low"
    /\ tasks[2].priority = "High"
    /\ tasks[3].priority = "High"
    /\ filteredTasks(tasks, "All", "Priority") = <<tasks[2], tasks[3], tasks[1]>>

(* C12: for every collection and every filter, the list sorted by Date is  *)
(* a permutation of the tasks that pass the filter, non-decreasing in      *)
(* reminderDate, with every task that has no reminderDate before every     *)
(* task that has one, whatever the timestamp of the reminder.              *)
C12_DateOrder ==
    \A filter \in Filters :
      LET r == filteredTasks(tasks, filter, "Date")
      IN  /\ PermutationOfMatching(r, tasks, filter)
          /\ \A k \in 1..Len(r) : \A m \in (k + 1)..Len(r) :
                /\ r[m].reminderDate = {} => r[k].reminderDate = {}
                /\ \A dk \in r[k].reminderDate : \A dm \in r[m].reminderDate :
                      dk <= dm

(* C13: with sortBy None the rendered list is exactly the subsequence of   *)
(* the stored tasks that pass the filter, in stored order; and computing   *)
(* the rendered list, for any filter and sort, leaves the stored           *)
(* collection as it was.                                                   *)
C13_NoneKeepsOrderAndRenderIsPure ==
    /\ [](\A filter \in Filters :
            filteredTasks(tasks, filter, "None")
              = SelectSeq(tasks, LAMBDA t : Matches(t, filter)))
    /\ [][\A filter \in Filters, sortBy \in SortBys :
            Render(filter, sortBy) => tasks' = tasks]_vars

\* A collection whose stored order is not its priority order and whose
\* middle task alone is completed.
C13_Witness ==
    /\ Len(tasks) = 3
    /\ ~tasks[1].completed /\ tasks[2].completed /\ ~tasks[3].completed
    /\ tasks[1].priority = "Low" /\ tasks[3].priority = "High"
    /\ filteredTasks(tasks, "Pending", "None") = <<tasks[1], tasks[3]>>

(* C14: in every reachable state no two tasks of the collection have the   *)
(* same id, also when two adds read the same value of the clock.           *)
C14_IdsUnique ==
    \A i \in 1..Len(tasks) : \A j \in (i + 1)..Len(tasks) :
        tasks[i].id # tasks[j].id

----------------------------------------------------------------------------
(* Vocabulary of the claims about persistence *)

\* The stored string is the collection ts: the same tasks in the same
\* order, field by field, a reminderDate and a notificationId exactly where
\* the task has one.
Represents(string, ts) ==
    /\ string.valid
    /\ Len(string.items) = Len(ts)
    /\ \A i \in 1..Len(ts) :
          LET j == string.items[i]
              t == ts[i]
          IN  /\ j.id = t.id
              /\ j.text = t.text
              /\ j.completed = t.completed
              /\ j.priority = t.priority
              /\ j.category = t.category
              /\ ("reminderDate" \in DOMAIN j) <=> (t.reminderDate # {})
              /\ \A d \in t.reminderDate : j.reminderDate.iso = d
              /\ ("notificationId" \in DOMAIN j) <=> (t.notificationId # {})
              /\ \A n \in t.notificationId : j.notificationId = n

(* C15: every value whose write is issued is the value the in-memory       *)
(* collection holds once the step that issues it has applied its mutation: *)
(* no write carries a collection that memory has not held.                 *)
C15_WritesFollowMemory ==
    /\ \A string \in pending : Represents(string, tasks)
    /\ [][\A string \in pending' \ pending : Represents(string, tasks')]_vars

\* The write of a collection of two tasks is under way while AsyncStorage
\* still holds another value.
C15_Witness ==
    /\ Len(tasks) = 2
    /\ \E string \in pending : Represents(string, tasks)
    /\ \A string \in storage : ~Represents(string, tasks)

(* C16: after any sequence of adds, toggles and deletes, once no operation *)
(* is under way and every write that was issued has completed, in whatever *)
(* order, AsyncStorage holds the in-memory collection.                     *)
C16_StorageMirrorsMemory ==
    (inflight = <<>> /\ ~loading /\ pending = {})
      => \E string \in storage : Represents(string, tasks)

\* Nothing the user did has left a trace: the collection is still the
\* initial one, nothing is suspended, and only writes of the empty
\* collection have been issued.
Untouched ==
    /\ tasks = <<>>
    /\ inflight = <<>>
    /\ editingTask = {}
    /\ \A string \in pending : Represents(string, <<>>)
    /\ storage = launched \/ \E string \in storage : Represents(string, <<>>)

(* C17: when the startup read completes and no user operation has          *)
(* intervened, the in-memory collection is the collection that was stored  *)
(* at the launch; if nothing was stored, or the read or the parse fails,   *)
(* the collection is empty and nothing is raised.                          *)
C17_LoadRestoresLaunchStorage ==
    [][\A ok \in BOOLEAN :
          (Untouched /\ LoadCompleted(ok))
          => /\ alert' = NoAlert
             /\ ~loading'
             /\ IF ok /\ \E string \in launched : string.valid
                THEN \A string \in launched : Represents(string, tasks')
                ELSE tasks' = <<>>]_vars

\* The notification ids that the tasks of ts carry
NotificationIds(ts) == UNION {ts[i].notificationId : i \in 1..Len(ts)}

(* C18: once the permission request of the launch has been answered with   *)
(* a denial, no step issues a schedule request and no task receives a      *)
(* notificationId.                                                         *)
C18_DeniedPermissionSkipsScheduling ==
    [][permission = "denied"
          => /\ \A k \in 1..Len(reqs') : reqs'[k].type # "schedule"
             /\ NotificationIds(tasks') \subseteq NotificationIds(tasks)]_vars

(* C19: for every collection, the string that the save step writes is     *)
(* turned by the load step into a collection equal to the original in      *)
(* every field of every task and in order: a reminderDate comes back with  *)
(* the same timestamp, an absent reminderDate or notificationId as absent. *)
C19_RoundTrip ==
    /\ tasksWithDates(JSONstringify(tasks)) = tasks
    /\ Settled => \A string \in storage : tasksWithDates(string) = tasks

\* Saved: a completed task without reminderDate and notificationId, a task
\* with both, and a task with a reminderDate only.
C19_Witness ==
    /\ Settled
    /\ storage # {}
    /\ Len(tasks) = 3
    /\ tasks[1].completed
    /\ tasks[1].reminderDate = {} /\ tasks[1].notificationId = {}
    /\ tasks[2].reminderDate # {} /\ tasks[2].notificationId # {}
    /\ tasks[3].reminderDate # {} /\ tasks[3].notificationId = {}

(* C20: when an add or an update that was suspended on its notification   *)
(* call completes, what the toggles and adds completed in the meantime     *)
(* have done is kept: every task of the collection is still there, with    *)
(* the completed flag it has.                                              *)
C20_CompletionKeepsOtherOperations ==
    [][\A i \in 1..MaxInFlight, ok \in BOOLEAN :
          (\/ AddTaskScheduled(i, ok)
           \/ UpdateTaskCancelled(i, ok)
           \/ UpdateTaskScheduled(i, ok))
          => \A j \in 1..Len(tasks) :
                /\ \E k \in 1..Len(tasks') : tasks'[k].id = tasks[j].id
                /\ \A k \in 1..Len(tasks') :
                      tasks'[k].id = tasks[j].id
                        => tasks'[k].completed = tasks[j].completed]_vars

(* C21: a deleted task stays deleted.  While one add or update is          *)
(* suspended, a task leaves the collection only by a delete; when the      *)
(* suspended operation completes, no task that is not in the collection    *)
(* comes back: the collection gains at most the task of the add itself.    *)
C21_DeletedStaysDeleted ==
    [][\A i \in 1..MaxInFlight, ok \in BOOLEAN :
          (/\ Len(inflight) = 1
           /\ \/ AddTaskScheduled(i, ok)
              \/ UpdateTaskCancelled(i, ok)
              \/ UpdateTaskScheduled(i, ok))
          => \A k \in 1..Len(tasks') :
                \/ \E j \in 1..Len(tasks) : tasks[j].id = tasks'[k].id
                \/ /\ inflight[i].kind = "add"
                   /\ tasks'[k].id = inflight[i].id]_vars

\* The ids of the tasks of a stored string (none when it does not parse)
StoredIds(string) == {string.items[i].id : i \in 1..Len(string.items)}

\* The ids of the tasks of the collection ts
TaskIds(ts) == {ts[i].id : i \in 1..Len(ts)}

(* C22: the launch loses no task.  When the startup read is answered, the  *)
(* collection holds every task that was stored at the launch and every     *)
(* task added before; and once the read, every write and every add have    *)
(* completed, AsyncStorage holds no collection that omits a task of the    *)
(* in-memory collection.                                                   *)
C22_LaunchLosesNoTask ==
    /\ [][LoadCompleted(TRUE)
            => /\ TaskIds(tasks) \subseteq TaskIds(tasks')
               /\ \A string \in launched :
                     StoredIds(string) \subseteq TaskIds(tasks')]_vars
    /\ []((~loading /\ pending = {} /\ inflight = <<>>)
            => \A string \in storage : TaskIds(tasks) \subseteq StoredIds(string))

====
